---- MODULE Spec2Model ----
(***************************************************************************)
(* A model of examples/awa.ipynb of zsl-pytorch: the notebook run top to   *)
(* bottom.  Three specifications share the module:                          *)
(*   Spec       the cells in order and the epoch loop of cell 14, with the *)
(*              two DataLoaders iterated batch by batch inside             *)
(*              train_epoch and evaluate;                                  *)
(*   SpecData   the class split of train_ds / valid_ds on a small dataset; *)
(*   SpecShape  the tensor shapes through semantic_unit, visual_fe and     *)
(*              zs_model for every batch size up to MaxBatch.              *)
(* zsl.data, zsl.models and zsl.engine are not part of the notebook: what  *)
(* is modelled of them is what the notebook's call sites and recorded      *)
(* outputs show.                                                           *)
(***************************************************************************)
EXTENDS Integers, Sequences, FiniteSets

VARIABLES
    pc,          \* position of the notebook run
    epoch,       \* the loop variable of cell 14
    cells,       \* the setup cells executed so far, in order
    step,        \* batches the call in progress has drawn from its loader
    consumed,    \* samples of the loader's pass handed out so far
    lastBatch,   \* size of the batch drawn last in the call in progress
    active,      \* calls of train_epoch / evaluate that have not returned
    calls,       \* every call made so far, with its outcome
    out,         \* the lines written to stdout by cell 14
    dpc,         \* SpecData: which loader is being iterated
    depoch,      \* SpecData: the epoch of the pass
    dleft,       \* SpecData: samples of the pass not yet in a batch
    unseen,      \* SpecData: the classes the dataset marks unseen
    trainLabels, \* SpecData: labels that appeared in a training batch
    validLabels, \* SpecData: labels that appeared in a validation batch
    spc,         \* SpecShape: position (cell 9, cell 10, done)
    B,           \* SpecShape: the batch size of the inputs
    shapes       \* SpecShape: the shapes printed so far

ctlVars   == <<pc, epoch, cells, step, consumed, lastBatch, active, calls, out>>
dataVars  == <<dpc, depoch, dleft, unseen, trainLabels, validLabels>>
shapeVars == <<spc, B, shapes>>
vars      == <<ctlVars, dataVars, shapeVars>>

Min(a, b) == IF a < b THEN a ELSE b

\* A step of the notebook run leaves the other specifications' variables alone.
CtlOnly == UNCHANGED <<dataVars, shapeVars>>

(***************************************************************************)
(* Cell 6: the datasets' sizes (cell 7's output) and the two DataLoaders.  *)
(***************************************************************************)
len_train_ds == 29409

len_valid_ds == 7913

\* DataLoader(ds, ...) with the keywords cell 6 passes; drop_last and
\* num_workers are not passed and keep the library's defaults.
DataLoader(n, bs, shuffle) ==
    [ds_len |-> n, batch_size |-> bs, shuffle |-> shuffle,
     drop_last |-> FALSE, num_workers |-> 0]

train_dl_32 == DataLoader(len_train_ds, 32, TRUE)

train_dl == DataLoader(len_train_ds, 64, TRUE)

valid_dl == DataLoader(len_valid_ds, 32, FALSE)

\* Whether the loader's iterator has another batch after `done` samples.
HasNext(dl, done) ==
    IF dl.drop_last THEN dl.ds_len - done >= dl.batch_size
                    ELSE done < dl.ds_len

\* The size of the batch the iterator yields after `done` samples.
BatchSize(dl, done) == Min(dl.batch_size, dl.ds_len - done)

\* len(dl)
NumBatches(dl) ==
    IF dl.drop_last THEN dl.ds_len \div dl.batch_size
                    ELSE (dl.ds_len + dl.batch_size - 1) \div dl.batch_size

(***************************************************************************)
(* Cell 14: the epoch loop.                                                *)
(***************************************************************************)
EPOCHS == 8

print_freq == 300

CellOrder == <<"cell6", "cell8", "cell10", "cell13">>

Call(fn, e) == [fn |-> fn, epoch |-> e, st |-> "running", batches |-> 0]

Last(s) == s[Len(s)]

SetLast(s, x) == [s EXCEPT ![Len(s)] = x]

\* A setup cell runs: cell 6 (datasets, loaders), cell 8 (semantic_unit,
\* visual_fe), cell 10 (zs_model), cell 13 (optimizer), then cell 14.
RunCell ==
    /\ pc = "setup"
    /\ Len(cells) < Len(CellOrder)
    /\ cells' = Append(cells, CellOrder[Len(cells) + 1])
    /\ pc' = IF Len(cells') = Len(CellOrder) THEN "loop" ELSE "setup"
    /\ UNCHANGED <<epoch, step, consumed, lastBatch, active, calls, out>>
    /\ CtlOnly

\* for epoch in range(EPOCHS): zsl.engine.train_epoch(..., epoch=epoch, ...)
CallTrainEpoch ==
    /\ pc = "loop"
    /\ epoch < EPOCHS
    /\ pc' = "in_train"
    /\ calls' = Append(calls, Call("train_epoch", epoch))
    /\ active' = active \cup {<<"train_epoch", epoch>>}
    /\ step' = 0
    /\ consumed' = 0
    /\ lastBatch' = 0
    /\ UNCHANGED <<epoch, cells, out>>
    /\ CtlOnly

\* train_epoch draws the next batch of dl and, every print_freq batches,
\* writes a progress line.
TrainBatch ==
    /\ pc = "in_train"
    /\ HasNext(train_dl, consumed)
    /\ lastBatch' = BatchSize(train_dl, consumed)
    /\ consumed' = consumed + lastBatch'
    /\ step' = step + 1
    /\ out' = IF step' % print_freq = 0
                THEN Append(out, <<"Epoch", epoch, step, NumBatches(train_dl)>>)
                ELSE out
    /\ UNCHANGED <<pc, epoch, cells, active, calls>>
    /\ CtlOnly

TrainEpochReturns_skipEvaluate ==
    /\ pc = "in_train"
    /\ ~HasNext(train_dl, consumed)
    /\ out' = Append(out, <<"Epoch", epoch, step, NumBatches(train_dl)>>)
    /\ calls' = SetLast(calls, [Last(calls) EXCEPT !.st = "returned",
                                                   !.batches = step])
    /\ active' = active \ {<<"train_epoch", epoch>>}
    /\ pc' = "loop"
    /\ epoch' = epoch + 1
    /\ UNCHANGED <<cells, step, consumed, lastBatch>>
    /\ CtlOnly

\* The loader is exhausted: train_epoch writes its last progress line and
\* returns; the loop body goes on to evaluate.
TrainEpochReturns ==
    /\ pc = "in_train"
    /\ ~HasNext(train_dl, consumed)
    /\ out' = Append(out, <<"Epoch", epoch, step, NumBatches(train_dl)>>)
    /\ calls' = SetLast(calls, [Last(calls) EXCEPT !.st = "returned",
                                                   !.batches = step])
    /\ active' = active \ {<<"train_epoch", epoch>>}
    /\ pc' = "at_eval"
    /\ UNCHANGED <<epoch, cells, step, consumed, lastBatch>>
    /\ CtlOnly

TrainEpochRaises_swallowed ==
    /\ pc = "in_train"
    /\ calls' = SetLast(calls, [Last(calls) EXCEPT !.st = "raised",
                                                   !.batches = step])
    /\ active' = active \ {<<"train_epoch", epoch>>}
    /\ pc' = "at_eval"
    /\ UNCHANGED <<epoch, cells, step, consumed, lastBatch, out>>
    /\ CtlOnly

\* train_epoch raises: the loop has no try, the exception leaves the cell.
TrainEpochRaises ==
    /\ pc = "in_train"
    /\ calls' = SetLast(calls, [Last(calls) EXCEPT !.st = "raised",
                                                   !.batches = step])
    /\ active' = active \ {<<"train_epoch", epoch>>}
    /\ pc' = "failed"
    /\ UNCHANGED <<epoch, cells, step, consumed, lastBatch, out>>
    /\ CtlOnly

CallEvaluate_whileTraining ==
    /\ pc = "in_train"
    /\ calls' = Append(calls, Call("evaluate", epoch))
    /\ active' = active \cup {<<"evaluate", epoch>>}
    /\ pc' = "in_eval"
    /\ step' = 0
    /\ consumed' = 0
    /\ lastBatch' = 0
    /\ UNCHANGED <<epoch, cells, out>>
    /\ CtlOnly

\* zsl.engine.evaluate(model=zs_model, dl=valid_dl, ...)
CallEvaluate ==
    /\ pc = "at_eval"
    /\ calls' = Append(calls, Call("evaluate", epoch))
    /\ active' = active \cup {<<"evaluate", epoch>>}
    /\ pc' = "in_eval"
    /\ step' = 0
    /\ consumed' = 0
    /\ lastBatch' = 0
    /\ UNCHANGED <<epoch, cells, out>>
    /\ CtlOnly

EvalBatch ==
    /\ pc = "in_eval"
    /\ HasNext(valid_dl, consumed)
    /\ lastBatch' = BatchSize(valid_dl, consumed)
    /\ consumed' = consumed + lastBatch'
    /\ step' = step + 1
    /\ UNCHANGED <<pc, epoch, cells, active, calls, out>>
    /\ CtlOnly

\* evaluate writes its one line and returns; range(EPOCHS) yields the next
\* epoch.
EvaluateReturns ==
    /\ pc = "in_eval"
    /\ ~HasNext(valid_dl, consumed)
    /\ out' = Append(out, <<"Validation">>)
    /\ calls' = SetLast(calls, [Last(calls) EXCEPT !.st = "returned",
                                                   !.batches = step])
    /\ active' = active \ {<<"evaluate", epoch>>}
    /\ pc' = "loop"
    /\ epoch' = epoch + 1
    /\ UNCHANGED <<cells, step, consumed, lastBatch>>
    /\ CtlOnly

EvaluateRaises ==
    /\ pc = "in_eval"
    /\ calls' = SetLast(calls, [Last(calls) EXCEPT !.st = "raised",
                                                   !.batches = step])
    /\ active' = active \ {<<"evaluate", epoch>>}
    /\ pc' = "failed"
    /\ UNCHANGED <<epoch, cells, step, consumed, lastBatch, out>>
    /\ CtlOnly

\* range(EPOCHS) is exhausted: the cell ends.
LoopExit ==
    /\ pc = "loop"
    /\ epoch >= EPOCHS
    /\ pc' = "done"
    /\ UNCHANGED <<epoch, cells, step, consumed, lastBatch, active, calls, out>>
    /\ CtlOnly

CtlInit ==
    /\ pc = "setup"
    /\ epoch = 0
    /\ cells = <<>>
    /\ step = 0
    /\ consumed = 0
    /\ lastBatch = 0
    /\ active = {}
    /\ calls = <<>>
    /\ out = <<>>

CtlIdle ==
    /\ pc = "idle" /\ epoch = 0 /\ cells = <<>> /\ step = 0 /\ consumed = 0
    /\ lastBatch = 0 /\ active = {} /\ calls = <<>> /\ out = <<>>

DataIdle ==
    /\ dpc = "idle" /\ depoch = 0 /\ dleft = {} /\ unseen = {}
    /\ trainLabels = {} /\ validLabels = {}

ShapeIdle ==
    /\ spc = "idle" /\ B = 0 /\ shapes = <<>>

Init == CtlInit /\ DataIdle /\ ShapeIdle

Next ==
    \/ RunCell
    \/ CallTrainEpoch
    \/ TrainBatch
    \/ TrainEpochReturns
    \/ TrainEpochRaises
    \/ CallEvaluate
    \/ EvalBatch
    \/ EvaluateReturns
    \/ EvaluateRaises
    \/ LoopExit

Spec == Init /\ [][Next]_vars

(***************************************************************************)
(* Properties of the notebook run (specification Spec).                    *)
(***************************************************************************)
CeilDiv(a, b) == (a + b - 1) \div b

Returned(i) == calls[i].st = "returned"

ValidationLines == {i \in 1..Len(out) : out[i][1] = "Validation"}

EpochsReported == {out[i][2] : i \in {j \in 1..Len(out) : out[j][1] = "Epoch"}}

\* C1: the cells run in the order data, units, model (then the optimizer)
\* before the loop makes any call; the calls of train_epoch and evaluate
\* alternate starting with train_epoch, the i-th pair being for epoch i-1;
\* a call is made only after every earlier call has returned; and when the
\* cell has run to its end, every epoch of range(EPOCHS) had its two calls
\* and the last call is an evaluate that returned.
C1_Alternation ==
    /\ cells = SubSeq(CellOrder, 1, Len(cells))
    /\ calls # <<>> => cells = CellOrder
    /\ \A i \in 1..Len(calls) :
          /\ calls[i].fn = IF i % 2 = 1 THEN "train_epoch" ELSE "evaluate"
          /\ calls[i].epoch = (i - 1) \div 2
          /\ i < Len(calls) => Returned(i)
    /\ pc = "done" =>
          /\ Len(calls) = 2 * EPOCHS
          /\ Last(calls).fn = "evaluate"
          /\ Returned(Len(calls))

C1_Witness ==
    /\ pc = "done"
    /\ Len(calls) = 2 * EPOCHS
    /\ calls[3] = [fn |-> "train_epoch", epoch |-> 1, st |-> "returned",
                   batches |-> NumBatches(train_dl)]

\* A call that raised is the last call ever made (nothing is called
\* after it, for that epoch or a later one), the run is then stopped in
\* "failed" with no call in progress, and no call (function, epoch) is made
\* twice.
C3_RaisedIsLast ==
    /\ \A i \in 1..Len(calls) :
          calls[i].st = "raised" => i = Len(calls) /\ pc = "failed"
    /\ pc = "failed" =>
          /\ calls # <<>>
          /\ Last(calls).st = "raised"
          /\ active = {}
    /\ \A i, j \in 1..Len(calls) :
          (calls[i].fn = calls[j].fn /\ calls[i].epoch = calls[j].epoch) => i = j

C3_Witness ==
    /\ pc = "failed"
    /\ Last(calls).fn = "train_epoch"
    /\ Last(calls).epoch = 2
    /\ Last(calls).st = "raised"
    /\ Len(calls) = 5

\* C3: the above in every state, and once the run has failed nothing moves
\* any more.
C3_NoRecovery ==
    /\ []C3_RaisedIsLast
    /\ [][pc = "failed" => UNCHANGED ctlVars]_vars

\* C4: a run of cell 14 to its end reports twelve epochs, 0 through 11, each
\* with its progress lines followed by one Validation line.
C4_TwelveEpochs ==
    pc = "done" =>
        /\ Cardinality(ValidationLines) = 12
        /\ EpochsReported = 0..11

\* What the cell does report: one Validation line per epoch of
\* range(EPOCHS), each right after that epoch's last progress line.
C4_Reported ==
    pc = "done" =>
        /\ Cardinality(ValidationLines) = EPOCHS
        /\ EpochsReported = 0..(EPOCHS - 1)
        /\ \A i \in ValidationLines :
              i > 1 /\ out[i - 1] = <<"Epoch", (i \div 3) - 1,
                                      NumBatches(train_dl), NumBatches(train_dl)>>

\* C5: neither loader has workers, and at most one call of train_epoch or
\* evaluate is in progress at any moment: the calls in progress are exactly
\* the one the run is inside of, if any.
C5_OneCallAtATime ==
    /\ train_dl.num_workers = 0
    /\ valid_dl.num_workers = 0
    /\ Cardinality(active) <= 1
    /\ Cardinality({i \in 1..Len(calls) : calls[i].st = "running"}) <= 1
    /\ active = {<<calls[i].fn, calls[i].epoch>> :
                    i \in {j \in 1..Len(calls) : calls[j].st = "running"}}
    /\ (active # {}) <=> (pc \in {"in_train", "in_eval"})

C5_Witness ==
    /\ pc = "in_eval"
    /\ active = {<<"evaluate", 3>>}
    /\ step = 100

NumClasses == 4

PerClass == 2

DataBatch == 3

DataEpochs == 2

Classes == 0..(NumClasses - 1)

Samples == 1..(NumClasses * PerClass)

ClassOf(s) == (s - 1) \div PerClass

\* zsl.data.AwAFeaturesDataset(root, features_type, load_unseen,
\* load_only_unseen): the samples the dataset object yields.
AwAFeaturesDataset(load_unseen, load_only_unseen) ==
    {s \in Samples :
        IF ~load_unseen THEN ClassOf(s) \notin unseen
        ELSE IF load_only_unseen THEN ClassOf(s) \in unseen
        ELSE TRUE}

train_ds == AwAFeaturesDataset(FALSE, FALSE)

valid_ds_withSeen == AwAFeaturesDataset(TRUE, FALSE)

valid_ds == AwAFeaturesDataset(TRUE, TRUE)

\* The batch size of a loader over the small dataset.
DataBatchSize(dl) == Min(dl.batch_size, DataBatch)

\* The first n samples of set S in index order (a loader without shuffle).
RECURSIVE FirstN(_, _)
FirstN(S, n) ==
    IF n = 0 \/ S = {} THEN {}
    ELSE LET m == CHOOSE x \in S : \A y \in S : x <= y
         IN  {m} \cup FirstN(S \ {m}, n - 1)

DataOnly == UNCHANGED <<ctlVars, shapeVars>>

\* train_dl yields a batch: shuffle=True, any samples not yet drawn.
DataTrainBatch ==
    /\ dpc = "train"
    /\ dleft # {}
    /\ \E b \in SUBSET dleft :
          /\ Cardinality(b) = Min(DataBatchSize(train_dl), Cardinality(dleft))
          /\ dleft' = dleft \ b
          /\ trainLabels' = trainLabels \cup {ClassOf(s) : s \in b}
    /\ UNCHANGED <<dpc, depoch, unseen, validLabels>>
    /\ DataOnly

\* train_epoch returns, evaluate starts its pass over valid_dl.
DataTrainDone ==
    /\ dpc = "train"
    /\ dleft = {}
    /\ dpc' = "valid"
    /\ dleft' = valid_ds
    /\ UNCHANGED <<depoch, unseen, trainLabels, validLabels>>
    /\ DataOnly

\* valid_dl yields a batch: no shuffle, the next samples in order.
DataValidBatch ==
    /\ dpc = "valid"
    /\ dleft # {}
    /\ LET b == FirstN(dleft, DataBatchSize(valid_dl))
       IN  /\ dleft' = dleft \ b
           /\ validLabels' = validLabels \cup {ClassOf(s) : s \in b}
    /\ UNCHANGED <<dpc, depoch, unseen, trainLabels>>
    /\ DataOnly

\* evaluate returns; the next epoch starts, or the loop ends.
DataValidDone ==
    /\ dpc = "valid"
    /\ dleft = {}
    /\ depoch' = depoch + 1
    /\ dpc' = IF depoch' < DataEpochs THEN "train" ELSE "stop"
    /\ dleft' = IF depoch' < DataEpochs THEN train_ds ELSE {}
    /\ UNCHANGED <<unseen, trainLabels, validLabels>>
    /\ DataOnly

DataInit ==
    /\ CtlIdle
    /\ ShapeIdle
    /\ unseen \in (SUBSET Classes) \ {{}, Classes}
    /\ dpc = "train"
    /\ depoch = 0
    /\ dleft = train_ds
    /\ trainLabels = {}
    /\ validLabels = {}

DataNext ==
    \/ DataTrainBatch
    \/ DataTrainDone
    \/ DataValidBatch
    \/ DataValidDone

SpecData == DataInit /\ [][DataNext]_vars

MaxBatch == 64

\* features.size(0) of ds[0] (cell 5's output)
FeatureDim == 2048

\* len(train_ds.attrs)
NumAttrs == 85

Linear(i, o) == [kind |-> "linear", in_features |-> i, out_features |-> o]

\* zsl.models.LinearSemanticUnit(in_features, out_features)
LinearSemanticUnit(i, o) == Linear(i, o)

\* zsl.models.Identity(n)
Identity(n) == [kind |-> "identity", in_features |-> n, out_features |-> n]

ShapeError == <<"RuntimeError">>

\* module(x) for x of shape <<batch, features>>
Forward(m, x) ==
    IF Len(x) # 2 THEN ShapeError
    ELSE IF m.kind = "identity" THEN x
    ELSE IF x[2] = m.in_features THEN <<x[1], m.out_features>>
    ELSE ShapeError

semantic_unit == LinearSemanticUnit(NumAttrs, 1024)

visual_fe_1024 == Identity(1024)

visual_fe == Identity(FeatureDim)

\* zsl.models.ZeroShot(visual_fe, semantic_unit): the semantic embedding is
\* brought to the visual module's dimension.
ZeroShot(v, u) ==
    [visual_fe |-> v, semantic_unit |-> u,
     fc |-> Linear(u.out_features, v.out_features)]

\* zs_model(features, semantic) -> (image_embed, semantic_embed)
ZeroShotForward(m, x, sem) ==
    <<Forward(m.visual_fe, x), Forward(m.fc, Forward(m.semantic_unit, sem))>>

zs_model == ZeroShot(visual_fe, semantic_unit)

ShapeOnly == UNCHANGED <<ctlVars, dataVars>>

\* Cell 9: the two units on their own.
ShapeCell9 ==
    /\ spc = "cell9"
    /\ shapes' = <<Forward(semantic_unit, <<B, NumAttrs>>),
                   Forward(visual_fe, <<B, FeatureDim>>)>>
    /\ spc' = "cell10"
    /\ UNCHANGED B
    /\ ShapeOnly

\* Cells 10 and 12: the model on a batch of B samples.
ShapeCell10 ==
    /\ spc = "cell10"
    /\ shapes' = shapes \o ZeroShotForward(zs_model, <<B, FeatureDim>>,
                                           <<B, NumAttrs>>)
    /\ spc' = "done"
    /\ UNCHANGED B
    /\ ShapeOnly

ShapeInit ==
    /\ CtlIdle
    /\ DataIdle
    /\ B \in 1..MaxBatch
    /\ spc = "cell9"
    /\ shapes = <<>>

ShapeNext ==
    \/ ShapeCell9
    \/ ShapeCell10

SpecShape == ShapeInit /\ [][ShapeNext]_vars

====
